---- MODULE Spec2Model ----
(***************************************************************************)
(* A model of metatests-browser-runner's command line entry point,         *)
(* src/bin/cli.js (the yargs front-end, lines 1-394): configuration        *)
(* resolution, file discovery and exclusion, adapter synthesis, the        *)
(* build artifacts' lifecycle and the browser session's completion.        *)
(*                                                                         *)
(* JavaScript values are modelled as follows.  Strings are TLA+ strings    *)
(* (TLC evaluates Len, \o and SubSeq on them).  An optional scalar is a    *)
(* sequence of length at most one: << >> is undefined, <<v>> is the value  *)
(* v.  An array is a sequence.                                             *)
(***************************************************************************)
EXTENDS Integers, Sequences, FiniteSets, TLC

VARIABLES
  fs,           \* the test tree under the working directory: [files, dirs]
  call,         \* the arguments of the function under application
  ret,          \* its result
  pc,           \* position of the process / of the application
  args,         \* yargs' argv
  cfgFile,      \* what parseFile(args.config) returns
  mergeDistinct,\* whether common.merge drops repeated elements
  config,       \* the module-level config built by getConfig
  build,        \* the build directory: [dir, entries]
  adapter,      \* the text of build/adapter.js, a sequence of statements
  server,       \* the karma.Server: "none", "constructed", "started"
  sessionCode,  \* << >>, or <<c>> once the session has completed with code c
  cbCodes,      \* the codes runBrowser's callback cb was invoked with
  exitCode,     \* << >> while the process runs, <<c>> after process.exit(c)
  events,       \* the file, console and server operations, in order
  page,         \* the browser page that executes the adapter
  metaReporter  \* the 'meta' reporter karma calls with the browsers' output

runVars == <<args, cfgFile, mergeDistinct, config, build, adapter, server,
             sessionCode, cbCodes, exitCode, events, page, metaReporter>>

vars == <<fs, call, ret, pc, args, cfgFile, mergeDistinct, config, build,
          adapter, server, sessionCode, cbCodes, exitCode, events, page,
          metaReporter>>

-----------------------------------------------------------------------------
(* String primitives of the JavaScript runtime.                            *)

\* str.slice(a, b): 0-based, b exclusive.
slice(s, a, b) == SubSeq(s, a + 1, b)

\* str[i], 0-based.
charAt(s, i) == SubSeq(s, i + 1, i + 1)

RECURSIVE indexFrom(_, _, _)
indexFrom(s, c, i) ==
  IF i >= Len(s) THEN -1
  ELSE IF charAt(s, i) = c THEN i
  ELSE indexFrom(s, c, i + 1)

\* str.indexOf(c) for a one-character c: 0-based, -1 when absent.
indexOf(s, c) == indexFrom(s, c, 0)

RECURSIVE lastIndexFrom(_, _, _)
lastIndexFrom(s, c, i) ==
  IF i < 0 THEN -1
  ELSE IF charAt(s, i) = c THEN i
  ELSE lastIndexFrom(s, c, i - 1)

\* str.lastIndexOf(c) for a one-character c.
lastIndexOf(s, c) == lastIndexFrom(s, c, Len(s) - 1)

\* str.replace(c, r) with a string pattern: the FIRST occurrence only.
replace(s, c, r) ==
  LET i == indexOf(s, c)
  IN IF i = -1 THEN s ELSE slice(s, 0, i) \o r \o slice(s, i + 1, Len(s))

\* str.startsWith(p)
startsWith(s, p) == Len(s) >= Len(p) /\ slice(s, 0, Len(p)) = p

\* common.fileExt(file): the text after the last dot of the last path
\* component, '' when that component has no dot.
fileExt(file) ==
  LET dot == lastIndexOf(file, ".")
      slash == lastIndexOf(file, "/")
  IN IF slash > dot \/ dot = -1 THEN "" ELSE slice(file, dot + 1, Len(file))

\* the elements of an array
Range(q) == {q[i] : i \in 1..Len(q)}

\* path.join(dir, f)
pathJoin(dir, f) == dir \o "/" \o f

-----------------------------------------------------------------------------
(* The file system as seen by fs.existsSync, fs.statSync, fs.readdirSync.  *)

existsSync(p) == p \in fs.files \/ p \in DOMAIN fs.dirs

isDirectory(p) == p \in DOMAIN fs.dirs

readdirSync(p) == fs.dirs[p]

-----------------------------------------------------------------------------
(* loadFiles, src/bin/cli.js 126-149.  The result is [exit, files]: exit   *)
(* is TRUE when process.exit(1) was called, and then no list is returned.  *)

Exit1 == [exit |-> TRUE, files |-> << >>]

Returned(list) == [exit |-> FALSE, files |-> list]

\* the .map callback without its first branch
resolveAlwaysAsIs(file) == file

\* the .map callback, lines 129-139, for a path that is not missing
resolveFile(file) ==
  IF existsSync(file \o ".js") THEN file \o ".js" ELSE file

\* the guard of the else branch, lines 134-138
missing(file) == ~existsSync(file \o ".js") /\ ~existsSync(file)

RECURSIVE loadFiles(_)
RECURSIVE forEachFile(_, _, _)

\* the .forEach callback, lines 140-147, folded over the mapped list
forEachFile(mapped, i, result) ==
  IF i > Len(mapped) THEN Returned(result)
  ELSE LET file == mapped[i]
       IN IF isDirectory(file)
          THEN LET sub == loadFiles([j \in 1..Len(readdirSync(file)) |->
                                       pathJoin(file, readdirSync(file)[j])])
               IN IF sub.exit THEN Exit1
                  ELSE forEachFile(mapped, i + 1, result \o sub.files)
          ELSE IF fileExt(file) = "js"
          THEN forEachFile(mapped, i + 1, Append(result, file))
          ELSE forEachFile(mapped, i + 1, result)

loadFiles(files) ==
  IF \E i \in 1..Len(files) : missing(files[i]) THEN Exit1
  ELSE forEachFile([i \in 1..Len(files) |-> resolveFile(files[i])], 1, << >>)

-----------------------------------------------------------------------------
(* Regular expressions of the JavaScript runtime, for the patterns that    *)
(* exclude builds.  A compiled expression is a sequence of items           *)
(* [any, ch, q]: an atom (any character, or the literal ch) and its        *)
(* quantifier q ("1", "?", "*" or "+").  new RegExp throws a SyntaxError   *)
(* on a quantifier with nothing to repeat.                                 *)

SyntaxError == [threw |-> TRUE, items |-> << >>]

Compiled(items) == [threw |-> FALSE, items |-> items]

Atom(any, ch) == [any |-> any, ch |-> ch, q |-> "1"]

\* st: "start" (nothing to repeat yet), "atom", "quant" (a quantifier was
\* read: only the lazy mark ? may follow), "lazy"
RECURSIVE regexParse(_, _, _, _)
regexParse(src, i, items, st) ==
  IF i >= Len(src) THEN Compiled(items)
  ELSE LET c == charAt(src, i)
       IN IF c = "\\"
          THEN IF i + 1 >= Len(src) THEN SyntaxError
               ELSE regexParse(src, i + 2,
                               Append(items, Atom(FALSE, charAt(src, i + 1))),
                               "atom")
          ELSE IF c = "."
          THEN regexParse(src, i + 1, Append(items, Atom(TRUE, "")), "atom")
          ELSE IF c \in {"*", "+", "?"}
          THEN IF st = "atom"
               THEN regexParse(src, i + 1,
                               [items EXCEPT ![Len(items)].q = c], "quant")
               ELSE IF st = "quant" /\ c = "?"
               THEN regexParse(src, i + 1, items, "lazy")
               ELSE SyntaxError
          ELSE regexParse(src, i + 1, Append(items, Atom(FALSE, c)), "atom")

\* new RegExp(src)
RegExp(src) == regexParse(src, 0, << >>, "start")

\* the atom of item k accepts the character of str at 1-based position pos
atomAt(items, k, str, pos) ==
  /\ pos <= Len(str)
  /\ items[k].any \/ SubSeq(str, pos, pos) = items[k].ch

RECURSIVE matchAt(_, _, _, _)
RECURSIVE matchMore(_, _, _, _)

\* item k has matched at least once: it may match again, or item k+1 follows
matchMore(items, k, str, pos) ==
  \/ matchAt(items, k + 1, str, pos)
  \/ atomAt(items, k, str, pos) /\ matchMore(items, k, str, pos + 1)

\* the items from k on match str from position pos on
matchAt(items, k, str, pos) ==
  IF k > Len(items) THEN TRUE
  ELSE LET q == items[k].q
       IN IF q = "1"
          THEN atomAt(items, k, str, pos) /\ matchAt(items, k + 1, str, pos + 1)
          ELSE IF q = "?"
          THEN \/ matchAt(items, k + 1, str, pos)
               \/ atomAt(items, k, str, pos) /\ matchAt(items, k + 1, str, pos + 1)
          ELSE IF q = "*"
          THEN matchMore(items, k, str, pos)
          ELSE atomAt(items, k, str, pos) /\ matchMore(items, k, str, pos + 1)

\* regexp.test(str): the expression is not anchored, so it matches when it
\* matches from some position of str
regexTest(items, str) == \E pos \in 1..(Len(str) + 1) : matchAt(items, 1, str, pos)

-----------------------------------------------------------------------------
(* exclude, src/bin/cli.js 102-111.  The result is [threw, files]: threw   *)
(* is TRUE when new RegExp threw, and then no list is returned.            *)

\* the first .map callback, lines 104-109
toRegex(path) == replace(replace(replace(path, ".", "\\."), "*", ".+"), "?", ".")

\* the .reduce of line 111: each expression filters the list in turn
RECURSIVE reduceFilter(_, _, _)
reduceFilter(regexps, k, files) ==
  IF k > Len(regexps) THEN files
  ELSE reduceFilter(regexps, k + 1,
                    SelectSeq(files, LAMBDA file : ~regexTest(regexps[k].items, file)))

exclude(files, filterArr) ==
  LET regexps == [k \in 1..Len(filterArr) |-> RegExp(toRegex(filterArr[k]))]
  IN IF \E k \in 1..Len(regexps) : regexps[k].threw
     THEN [threw |-> TRUE, files |-> << >>]
     ELSE [threw |-> FALSE, files |-> reduceFilter(regexps, 1, files)]

-----------------------------------------------------------------------------
(* Optional values and JavaScript's || .                                   *)

Undefined == << >>

Some(v) == <<v>>

\* ToBoolean of an optional string, number, boolean
truthyStr(x) == x # Undefined /\ x[1] # ""

truthyNum(x) == x # Undefined /\ x[1] # 0

truthyBool(x) == x # Undefined /\ x[1]

\* a || b
orStr(a, b) == IF truthyStr(a) THEN a ELSE b

orNum(a, b) == IF truthyNum(a) THEN a ELSE b

orBool(a, b) == IF truthyBool(a) THEN a ELSE b

-----------------------------------------------------------------------------
(* Constants of src/bin/cli.js.                                            *)

DEFAULT_EXIT_TIMEOUT == 5

\* lines 13-20
browserLaunchers ==
  [b \in {"Chrome", "ChromeHeadless", "Firefox", "IE", "Opera", "Safari"} |->
     IF b \in {"Chrome", "ChromeHeadless"} THEN "karma-chrome-launcher"
     ELSE IF b = "Firefox" THEN "karma-firefox-launcher"
     ELSE IF b = "IE" THEN "karma-ie-launcher"
     ELSE IF b = "Opera" THEN "karma-opera-launcher"
     ELSE "karma-safari-launcher"]

\* lines 22-29: [rank, karma constant, webpack stats]
logLevels ==
  [l \in {"quiet", "default", "error", "warn", "info", "debug"} |->
     IF l = "quiet" THEN [rank |-> 0, karma |-> "LOG_DISABLE", stats |-> "none"]
     ELSE IF l \in {"default", "error"}
     THEN [rank |-> 1, karma |-> "LOG_ERROR", stats |-> "errors-only"]
     ELSE IF l = "warn" THEN [rank |-> 2, karma |-> "LOG_WARN", stats |-> "minimal"]
     ELSE IF l = "info" THEN [rank |-> 3, karma |-> "LOG_INFO", stats |-> "normal"]
     ELSE [rank |-> 4, karma |-> "LOG_DEBUG", stats |-> "verbose"]]

\* lines 89-92
ignoredNodePackages ==
  {"child_process", "cluster", "dgram", "fs", "module", "readline", "repl"}

\* names that every object literal answers to through Object.prototype:
\* logLevels[name] is then a function, which is truthy and whose [0], [1]
\* and [2] are undefined
inheritedKeys == {"constructor", "toString", "valueOf", "hasOwnProperty"}

\* if (!logLevels[level]) level = 'default', lines 95, 96 and 170
knownLevel(level) ==
  IF level \in DOMAIN logLevels \cup inheritedKeys THEN level ELSE "default"

\* logLevels[level][0]
levelRank(level) ==
  IF level \in DOMAIN logLevels THEN Some(logLevels[level].rank) ELSE Undefined

\* lines 94-98: >= with an undefined operand is false
isLogAtLeast(level1, level2) ==
  LET r1 == levelRank(knownLevel(level1))
      r2 == levelRank(knownLevel(level2))
  IN r1 # Undefined /\ r2 # Undefined /\ r1[1] >= r2[1]

-----------------------------------------------------------------------------
(* merge, line 100.  common.merge belongs to @metarhia/common, whose       *)
(* source is not part of the repository: whether it keeps or drops         *)
(* repeated elements is left open (mergeDistinct), the order of first      *)
(* occurrences being the first array's, then the second's.                 *)

RECURSIVE distinct(_, _)
distinct(list, seen) ==
  IF list = << >> THEN << >>
  ELSE IF Head(list) \in seen THEN distinct(Tail(list), seen)
  ELSE <<Head(list)>> \o distinct(Tail(list), seen \cup {Head(list)})

commonMerge(arr1, arr2) ==
  IF mergeDistinct THEN distinct(arr1 \o arr2, {}) ELSE arr1 \o arr2

\* a default parameter value replaces undefined
orEmpty(arr) == IF arr = Undefined THEN << >> ELSE arr[1]

merge(arr1, arr2) == commonMerge(orEmpty(arr1), orEmpty(arr2))

-----------------------------------------------------------------------------
(* The karma configuration, lines 151-260.                                 *)

\* lines 151-167: [exit, browsers, plugins]; exit is TRUE when process.exit(1)
\* was called at the first browser without a launcher
RECURSIVE setKarmaBrowsers(_, _, _)

\* setKarmaBrowsers passing over a browser without a launcher
setKarmaBrowsersSkipUnknown(cfg, browsers, i) ==
  IF i > Len(browsers) THEN [exit |-> FALSE, config |-> cfg]
  ELSE LET browser == browsers[i]
       IN IF browser \notin DOMAIN browserLaunchers
          THEN setKarmaBrowsers(cfg, browsers, i + 1)
          ELSE LET launcher == browserLaunchers[browser]
               IN setKarmaBrowsers(
                    [cfg EXCEPT !.browsers = Append(@, browser),
                                !.plugins = IF launcher \in Range(@) THEN @
                                            ELSE Append(@, launcher)],
                    browsers, i + 1)

setKarmaBrowsers(cfg, browsers, i) ==
  IF i > Len(browsers) THEN [exit |-> FALSE, config |-> cfg]
  ELSE LET browser == browsers[i]
       IN IF browser \notin DOMAIN browserLaunchers
          THEN [exit |-> TRUE, config |-> cfg]
          ELSE LET launcher == browserLaunchers[browser]
               IN setKarmaBrowsers(
                    [cfg EXCEPT !.browsers = Append(@, browser),
                                !.plugins = IF launcher \in Range(@) THEN @
                                            ELSE Append(@, launcher)],
                    browsers, i + 1)

\* lines 169-175.  "undefined" stands for the undefined that karma.constants[undefined] and
\* the [2] of an inherited function are
setKarmaLogLevel(cfg, logLevel) ==
  LET level == knownLevel(logLevel)
  IN IF level \in DOMAIN logLevels
     THEN [cfg EXCEPT !.logLevel = logLevels[level].karma,
                      !.stats = logLevels[level].stats]
     ELSE [cfg EXCEPT !.logLevel = "undefined", !.stats = "undefined"]

\* lines 177-183
removeNodePackages(cfg) == [cfg EXCEPT !.node = ignoredNodePackages]

\* lines 220-260: [exit, config]
getBrowserConfig(conf) ==
  LET base == [preprocessors |-> IF truthyStr(conf.saveAdapter)
                                 THEN <<"webpack", "meta">> ELSE <<"webpack">>,
               files |-> <<"build/adapter.js">>,
               plugins |-> IF truthyStr(conf.saveAdapter)
                           THEN <<"karma-webpack", "reporter:meta", "preprocessor:meta">>
                           ELSE <<"karma-webpack", "reporter:meta">>,
               reporters |-> <<"meta">>,
               port |-> conf.browser.port,
               autoWatch |-> FALSE,
               singleRun |-> TRUE,
               concurrency |-> 1,
               browsers |-> << >>,
               node |-> {},
               logLevel |-> "",
               stats |-> ""]
      stubbed == IF conf.unresolvedModule = "ignore" THEN removeNodePackages(base)
                 ELSE base
      launched == setKarmaBrowsers(stubbed, conf.browser.browsers, 1)
  IN IF launched.exit THEN launched
     ELSE [exit |-> FALSE, config |-> setKarmaLogLevel(launched.config, conf.logLevel)]

-----------------------------------------------------------------------------
(* getConfig, lines 262-288, for runs without --karma-config.  The result  *)
(* is [outcome, why, config]: outcome "exit" when process.exit(1) was      *)
(* called, "throw" when new RegExp threw, "ok" when config was returned.   *)

NoBrowser == [browsers |-> Undefined, port |-> Undefined]

\* the object parseFile returns for a file that sets no key, and {} itself
EmptyConf ==
  [files |-> Undefined, exclude |-> Undefined, logLevel |-> Undefined,
   reporter |-> Undefined, runTodo |-> Undefined, exitTimeout |-> Undefined,
   unresolvedModule |-> Undefined, browser |-> NoBrowser]

NoConfig ==
  [exclude |-> << >>, files |-> << >>, logLevel |-> "", reporter |-> "",
   runTodo |-> Undefined, exitTimeout |-> 0, saveAdapter |-> Undefined,
   unresolvedModule |-> "",
   browser |-> [browsers |-> << >>, port |-> Undefined]]

\* line 263
parsedConfig == IF truthyStr(args.config) THEN cfgFile ELSE EmptyConf

\* lines 269-281: the scalar options
scalars(file) ==
  [logLevel |-> orStr(orStr(args.logLevel, file.logLevel), Some("default"))[1],
   reporter |-> orStr(orStr(args.reporter, file.reporter), Some("default"))[1],
   runTodo |-> orBool(args.runTodo, file.runTodo),
   exitTimeout |->
     orNum(orNum(args.exitTimeout, file.exitTimeout), Some(DEFAULT_EXIT_TIMEOUT))[1],
   saveAdapter |-> args.saveAdapter,
   unresolvedModule |->
     orStr(orStr(args.unresolvedModule, file.unresolvedModule), Some("ignore"))[1],
   port |-> orNum(args.browserPort, file.browser.port)]

getConfig ==
  LET file == parsedConfig
      excluded == merge(file.exclude, args.exclude)
      loaded == loadFiles(merge(file.files, Some(args._)))
      kept == exclude(loaded.files, excluded)
      sc == scalars(file)
      conf == [exclude |-> excluded,
               files |-> kept.files,
               logLevel |-> sc.logLevel,
               reporter |-> sc.reporter,
               runTodo |-> sc.runTodo,
               exitTimeout |-> sc.exitTimeout,
               saveAdapter |-> sc.saveAdapter,
               unresolvedModule |-> sc.unresolvedModule,
               browser |-> [browsers |-> merge(file.browser.browsers, args.browsers),
                            port |-> sc.port]]
      karmaConf == getBrowserConfig(conf)
  IN IF loaded.exit
     THEN [outcome |-> "exit", why |-> "File does not exist", config |-> NoConfig]
     ELSE IF kept.threw
     THEN [outcome |-> "throw", why |-> "SyntaxError", config |-> NoConfig]
     ELSE IF karmaConf.exit
     THEN [outcome |-> "exit",
           why |-> "Metatests library does not support such browser",
           config |-> NoConfig]
     ELSE [outcome |-> "ok", why |-> "",
           config |-> [conf EXCEPT !.browser = karmaConf.config]]

-----------------------------------------------------------------------------
(* getBuildFiles, lines 290-345.  The adapter is the sequence of its       *)
(* statements [kind, arg, ms], in the order of the text.                   *)

Stmt(kind, arg, ms) == [kind |-> kind, arg |-> arg, ms |-> ms]

\* str.split('-')[1]: undefined when str has no '-'
splitSecond(str) ==
  LET i == indexOf(str, "-")
  IN IF i = -1 THEN Undefined
     ELSE LET rest == slice(str, i + 1, Len(str))
              j == indexOf(rest, "-")
          IN Some(IF j = -1 THEN rest ELSE slice(rest, 0, j))

\* lines 323-324 and the interpolation of line 327
reporterType(reporter) ==
  LET type == splitSecond(reporter)
  IN IF type = Undefined THEN "undefined"
     ELSE IF type[1] = "" THEN ""
     ELSE "'" \o type[1] \o "'"

\* lines 291-318: the fixed head of the adapter
adapterHead(conf) ==
  <<Stmt("__karma__.start=", "", 0),
    Stmt("require", "babel-polyfill", 0),
    Stmt("process.versions.node=", "", 0),
    Stmt("process.stdout=", "", 0),
    Stmt("process.stdout.write=", "", 0),
    Stmt("require", "metatests", 0),
    Stmt("on finish", "", conf.exitTimeout * 1000)>>

\* lines 320-334
reporterStmt(conf) ==
  IF conf.logLevel = "quiet" THEN <<Stmt("removeReporter", "", 0)>>
  ELSE IF startsWith(conf.reporter, "tap")
  THEN <<Stmt("setReporter TapReporter", reporterType(conf.reporter), 0)>>
  ELSE IF conf.reporter = "concise"
  THEN <<Stmt("setReporter ConciseReporter", "", 0)>>
  ELSE << >>

\* lines 336-338
todoStmt(conf) ==
  IF truthyBool(conf.runTodo) THEN <<Stmt("runTodo", "", 0)>> ELSE << >>

\* line 340
loadStmts(conf) ==
  [i \in 1..Len(conf.files) |-> Stmt("require", "../" \o conf.files[i], 0)]

\* getBuildFiles with the test files loaded first
getBuildFilesLoadFirst(conf) ==
  [adapter |-> loadStmts(conf) \o adapterHead(conf) \o reporterStmt(conf)
                 \o todoStmt(conf),
   loader |-> "loader"]

\* getBuildFiles with the timeout not converted to milliseconds
getBuildFilesShortDelay(conf) ==
  [adapter |-> [adapterHead(conf) EXCEPT ![7].ms = conf.exitTimeout]
                 \o reporterStmt(conf) \o todoStmt(conf) \o loadStmts(conf),
   loader |-> "loader"]

\* lines 290-345
getBuildFiles(conf) ==
  [adapter |-> adapterHead(conf) \o reporterStmt(conf) \o todoStmt(conf)
                 \o loadStmts(conf),
   loader |-> "loader"]

-----------------------------------------------------------------------------
(* The 'meta' reporter, getReporter.  karma calls onBrowserLog and         *)
(* onBrowserError with the browser object and what the page logged: a      *)
(* string in quotes, or a value that is not a string (here a number        *)
(* 0..9).  The reporter is [byLogLevel, logLevel, browsers, out,           *)
(* delivered]: browsers is the closure's array of the browser objects      *)
(* seen (compared by identity), out the console lines [stream, text] it    *)
(* has printed, delivered the calls karma has made.  byLogLevel is TRUE    *)
(* for the getReporter(logLevel) of lines 899-932, FALSE for the           *)
(* getReporter() of lines 185-212.                                         *)

NoReporter ==
  [byLogLevel |-> FALSE, logLevel |-> "default", browsers |-> << >>,
   out |-> << >>, delivered |-> << >>]

Line(stream, text) == [stream |-> stream, text |-> text]

\* JSON.stringify(n, null, 2) of a number 0..9
stringify(n) == slice("0123456789", n, n + 1)

\* lines 190-191 and 200-201
payloadText(log) ==
  IF log.isString THEN slice(log.str, 1, Len(log.str) - 1) ELSE stringify(log.num)

\* lines 192-195 and 202-205
header(rep, browser) ==
  IF browser.id \in Range(rep.browsers) THEN rep
  ELSE [rep EXCEPT !.browsers = Append(@, browser.id),
                   !.out = Append(@, Line("stdout", "\n" \o browser.name \o ":"))]

\* onBrowserError printing on standard output
onBrowserErrorToStdout(rep, browser, error) ==
  [header(rep, browser) EXCEPT !.out = Append(@, Line("stdout", payloadText(error)))]

\* lines 189-197
onBrowserLog(rep, browser, log) ==
  [header(rep, browser) EXCEPT !.out = Append(@, Line("stdout", payloadText(log)))]

\* lines 199-207
onBrowserError(rep, browser, error) ==
  [header(rep, browser) EXCEPT !.out = Append(@, Line("stderr", payloadText(error)))]

\* lines 903-907: the handlers of the reporter built for log level 'quiet'
silenced(rep) == rep.byLogLevel /\ rep.logLevel = "quiet"

MaxEvents == 3

\* the browser objects karma knows
Browsers ==
  {[id |-> 1, name |-> "Chrome"], [id |-> 2, name |-> "Firefox"]}

\* what a page logs
Payloads ==
  {[isString |-> TRUE, str |-> "'ok'", num |-> 0],
   [isString |-> TRUE, str |-> "''", num |-> 0],
   [isString |-> FALSE, str |-> "", num |-> 7]}

Delivery(kind, browser, payload) ==
  [kind |-> kind, browser |-> browser, payload |-> payload]

\* karma calls reporter.onBrowserLog(browser, log)
BrowserLog(browser, log) ==
  /\ pc = "reporting"
  /\ Len(metaReporter.delivered) < MaxEvents
  /\ metaReporter' =
       [(IF silenced(metaReporter) THEN metaReporter
         ELSE onBrowserLog(metaReporter, browser, log))
          EXCEPT !.delivered = Append(@, Delivery("log", browser, log))]
  /\ UNCHANGED <<fs, call, ret, pc, args, cfgFile, mergeDistinct, config, build,
                 adapter, server, sessionCode, cbCodes, exitCode, events, page>>

\* karma calls reporter.onBrowserError(browser, error)
BrowserError(browser, error) ==
  /\ pc = "reporting"
  /\ Len(metaReporter.delivered) < MaxEvents
  /\ metaReporter' =
       [(IF silenced(metaReporter) THEN metaReporter
         ELSE onBrowserError(metaReporter, browser, error))
          EXCEPT !.delivered = Append(@, Delivery("error", browser, error))]
  /\ UNCHANGED <<fs, call, ret, pc, args, cfgFile, mergeDistinct, config, build,
                 adapter, server, sessionCode, cbCodes, exitCode, events, page>>

NextReporter ==
  \/ \E b \in Browsers, log \in Payloads : BrowserLog(b, log)
  \/ \E b \in Browsers, error \in Payloads : BrowserError(b, error)

-----------------------------------------------------------------------------
(* The adapter at work in a browser page: its statements are executed in   *)
(* order; the metatests runner emits 'finish'; setTimeout callbacks run    *)
(* when their delay has passed.  Time is in milliseconds.                  *)

\* the page before the adapter runs
NoPage ==
  [ip |-> 1, listening |-> FALSE, delay |-> 0, loaded |-> << >>,
   reporter |-> "default", todo |-> FALSE, now |-> 0, finishedAt |-> Undefined,
   timers |-> {}, hasFailures |-> FALSE, calls |-> << >>,
   shim |-> FALSE, stdout |-> "", console |-> << >>, written |-> ""]

MaxSeconds == 7

\* the next statement of the adapter is executed
Exec ==
  /\ pc = "page"
  /\ page.ip <= Len(adapter)
  /\ page.calls = << >>
  /\ LET stmt == adapter[page.ip]
         next == [page EXCEPT !.ip = @ + 1]
     IN page' =
          IF stmt.kind = "on finish"
          THEN [next EXCEPT !.listening = TRUE, !.delay = stmt.ms]
          ELSE IF stmt.kind = "require" /\ startsWith(stmt.arg, "../")
          THEN [next EXCEPT !.loaded = Append(@, stmt.arg)]
          ELSE IF stmt.kind = "removeReporter"
          THEN [next EXCEPT !.reporter = "none"]
          ELSE IF stmt.kind = "setReporter TapReporter"
          THEN [next EXCEPT !.reporter = "tap " \o stmt.arg]
          ELSE IF stmt.kind = "setReporter ConciseReporter"
          THEN [next EXCEPT !.reporter = "concise"]
          ELSE IF stmt.kind = "runTodo"
          THEN [next EXCEPT !.todo = TRUE]
          ELSE IF stmt.kind = "process.stdout.write="
          THEN [next EXCEPT !.shim = TRUE, !.stdout = ""]
          ELSE next
  /\ UNCHANGED <<metaReporter, fs, call, ret, pc, args, cfgFile, mergeDistinct, config, build,
                 adapter, server, sessionCode, cbCodes, exitCode, events>>

\* a test of a loaded file fails
TestFails ==
  /\ pc = "page"
  /\ Len(page.loaded) > 0
  /\ ~page.hasFailures
  /\ page.calls = << >>
  /\ page' = [page EXCEPT !.hasFailures = TRUE]
  /\ UNCHANGED <<metaReporter, fs, call, ret, pc, args, cfgFile, mergeDistinct, config, build,
                 adapter, server, sessionCode, cbCodes, exitCode, events>>

\* the runner emits 'finish'; the listener of lines 309-318, when it is
\* registered, logs and sets the timer
RunnerFinish ==
  /\ pc = "page"
  /\ Len(page.loaded) > 0
  /\ page.finishedAt = Undefined
  /\ page' = [page EXCEPT !.finishedAt = Some(page.now),
                          !.timers = IF page.listening
                                     THEN @ \cup {page.now + page.delay} ELSE @]
  /\ events' = IF page.listening
               THEN Append(events, "console.log Tests finished") ELSE events
  /\ UNCHANGED <<metaReporter, fs, call, ret, pc, args, cfgFile, mergeDistinct, config, build,
                 adapter, server, sessionCode, cbCodes, exitCode>>

\* a second passes
Tick ==
  /\ pc = "page"
  /\ page.now < MaxSeconds * 1000
  /\ page.calls = << >>
  /\ page' = [page EXCEPT !.now = @ + 1000]
  /\ UNCHANGED <<metaReporter, fs, call, ret, pc, args, cfgFile, mergeDistinct, config, build,
                 adapter, server, sessionCode, cbCodes, exitCode, events>>

\* the callback of setTimeout, lines 313-317, runs: not before its time
TimerFires(due) ==
  /\ pc = "page"
  /\ due \in page.timers
  /\ page.now >= due
  /\ page' = [page EXCEPT
       !.timers = @ \ {due},
       !.calls = @ \o <<[fn |-> "info", at |-> page.now, success |-> TRUE],
                        [fn |-> "result", at |-> page.now,
                         success |-> ~page.hasFailures],
                        [fn |-> "complete", at |-> page.now, success |-> TRUE]>>]
  /\ UNCHANGED <<metaReporter, fs, call, ret, pc, args, cfgFile, mergeDistinct, config, build,
                 adapter, server, sessionCode, cbCodes, exitCode, events>>

\* the while loop of lines 300-305 taken at most once
flushOnce(stdout, console) ==
  LET i == indexOf(stdout, "\n")
  IN IF i = -1 THEN [stdout |-> stdout, console |-> console]
     ELSE [stdout |-> slice(stdout, i + 1, Len(stdout)),
           console |-> Append(console, slice(stdout, 0, i))]

\* lines 300-305: console.log of every complete line of the buffer
RECURSIVE flush(_, _)
flush(stdout, console) ==
  LET i == indexOf(stdout, "\n")
  IN IF i = -1 THEN [stdout |-> stdout, console |-> console]
     ELSE flush(slice(stdout, i + 1, Len(stdout)),
                Append(console, slice(stdout, 0, i)))

\* lines 298-306: process.stdout.write(str) of the adapter
stdoutWrite(pg, str) ==
  LET flushed == flush(pg.stdout \o str, pg.console)
  IN [pg EXCEPT !.stdout = flushed.stdout, !.console = flushed.console]

MaxWritten == 4

\* the strings a test writes in one call
Chunks == {"a", "\n", "ab", "a\n", "\nb", "\n\n", "a\nb"}

\* code of the page calls process.stdout.write(str); written keeps the
\* concatenation of all the strings written
StdoutWrite(str) ==
  /\ pc = "page"
  /\ page.shim
  /\ Len(page.written) + Len(str) <= MaxWritten
  /\ page' = [stdoutWrite(page, str) EXCEPT !.written = @ \o str]
  /\ UNCHANGED <<metaReporter, fs, call, ret, pc, args, cfgFile, mergeDistinct,
                 config, build, adapter, server, sessionCode, cbCodes, exitCode,
                 events>>

\* getBuildFiles(config) applied on its own, and the page opened on its result
BuildAdapter ==
  /\ pc = "build"
  /\ adapter' = getBuildFiles(config).adapter
  /\ pc' = "page"
  /\ UNCHANGED <<metaReporter, fs, call, ret, args, cfgFile, mergeDistinct, config, build,
                 server, sessionCode, cbCodes, exitCode, events, page>>

NextAdapter ==
  \/ BuildAdapter
  \/ Exec
  \/ TestFails
  \/ RunnerFinish
  \/ Tick
  \/ \E due \in page.timers : TimerFires(due)

-----------------------------------------------------------------------------
(* The process, lines 347-394.                                             *)

MaxCode == 2

\* the status codes a karma session hands to its completion callback
SessionCodes == 0..MaxCode

\* onExit, lines 378-383: what it logs before it ends the process
onExit(code) ==
  (IF isLogAtLeast(config.logLevel, "default")
   THEN <<"console.log Metatests finished with code">> ELSE << >>)
    \o <<"process.exit">>

\* lines 31-87: yargs parses argv when .argv is read.  A value outside an
\* option's choices fails the parse: yargs reports it and exits with 1.
validChoices ==
  /\ args.logLevel = Undefined \/ args.logLevel[1] \in DOMAIN logLevels
  /\ args.unresolvedModule = Undefined
       \/ args.unresolvedModule[1] \in {"ignore", "fail"}
  /\ \A b \in Range(orEmpty(args.browsers)) : b \in DOMAIN browserLaunchers

ParseArgs ==
  /\ pc = "argv"
  /\ IF validChoices
     THEN /\ pc' = "start"
          /\ UNCHANGED <<exitCode, events>>
     ELSE /\ pc' = "exited"
          /\ exitCode' = Some(1)
          /\ events' = events \o <<"console.error Invalid values", "process.exit">>
  /\ UNCHANGED <<metaReporter, page, fs, call, ret, args, cfgFile, mergeDistinct, config, build,
                 adapter, server, sessionCode, cbCodes>>

\* line 376.  An exception that nothing catches ends a Node process with
\* status 1.
GetConfig ==
  /\ pc = "start"
  /\ LET r == getConfig
     IN /\ config' = r.config
        /\ pc' = IF r.outcome = "ok" THEN "configured" ELSE "exited"
        /\ exitCode' = IF r.outcome = "ok" THEN exitCode ELSE Some(1)
        /\ events' = IF r.outcome = "ok" THEN events
                     ELSE IF r.outcome = "exit"
                     THEN events \o <<"console.error " \o r.why, "process.exit">>
                     ELSE events \o <<"uncaught " \o r.why>>
  /\ UNCHANGED <<metaReporter, page, fs, call, ret, args, cfgFile, mergeDistinct, build, adapter,
                 server, sessionCode, cbCodes>>

\* lines 385-392 without the test of config.files.length
MainSkipsCheck ==
  /\ pc = "configured"
  /\ events' = events \o (IF isLogAtLeast(config.logLevel, "debug")
                          THEN <<"console.log Metatests final config">> ELSE << >>)
  /\ pc' = "run"
  /\ UNCHANGED <<metaReporter, page, fs, call, ret, args, cfgFile, mergeDistinct, config, build,
                 adapter, server, sessionCode, cbCodes, exitCode>>

\* lines 385-392
Main ==
  /\ pc = "configured"
  /\ LET debug == IF isLogAtLeast(config.logLevel, "debug")
                  THEN <<"console.log Metatests final config">> ELSE << >>
     IN IF Len(config.files) = 0
        THEN /\ events' = events \o debug
                            \o <<"console.error No test files were specified",
                                 "yargs.showHelp">>
                            \o onExit(1)
             /\ exitCode' = Some(1)
             /\ pc' = "exited"
        ELSE /\ events' = events \o debug
             /\ exitCode' = exitCode
             /\ pc' = "run"
  /\ UNCHANGED <<metaReporter, page, fs, call, ret, args, cfgFile, mergeDistinct, config, build,
                 adapter, server, sessionCode, cbCodes>>

\* runBrowser(config, onExit), lines 347-374 and 394, up to server.start()
RunBrowser ==
  /\ pc = "run"
  /\ IF Len(config.browser.browsers) = 0
     THEN /\ events' = events \o <<"console.error No browser environments specified",
                                   "cb">> \o onExit(1)
          /\ cbCodes' = Append(cbCodes, 1)
          /\ exitCode' = Some(1)
          /\ pc' = "exited"
          /\ UNCHANGED <<build, adapter, server>>
     ELSE /\ build' = [dir |-> TRUE,
                       entries |-> build.entries \cup {"adapter.js", "loader.js"}]
          /\ adapter' = getBuildFiles(config).adapter
          /\ events' = events
               \o (IF build.dir THEN << >> ELSE <<"mkdirSync build">>)
               \o <<"writeFileSync build/adapter.js", "writeFileSync build/loader.js">>
               \o (IF isLogAtLeast(config.logLevel, "info")
                   THEN <<"console.log Adapter file">> ELSE << >>)
               \o <<"new karma.Server", "server.start">>
          /\ server' = "started"
          /\ pc' = "session"
          /\ UNCHANGED <<cbCodes, exitCode>>
  /\ UNCHANGED <<metaReporter, page, fs, call, ret, args, cfgFile, mergeDistinct, config, sessionCode>>

\* the completion callback of the karma.Server, lines 367-372.  unlinkSync
\* throws when the file is missing, rmdirSync when the directory is not
\* empty; the exception leaves the callback, and cb is not reached.
SessionComplete(code) ==
  /\ pc = "session"
  /\ server = "started"
  /\ server' = "done"
  /\ sessionCode' = Some(code)
  /\ IF "adapter.js" \notin build.entries
     THEN /\ events' = events \o <<"unlinkSync build/adapter.js throws">>
          /\ pc' = "thrown"
          /\ UNCHANGED <<build, cbCodes, exitCode>>
     ELSE IF "loader.js" \notin build.entries
     THEN /\ events' = events \o <<"unlinkSync build/adapter.js",
                                   "unlinkSync build/loader.js throws">>
          /\ build' = [build EXCEPT !.entries = @ \ {"adapter.js"}]
          /\ pc' = "thrown"
          /\ UNCHANGED <<cbCodes, exitCode>>
     ELSE IF build.entries \ {"adapter.js", "loader.js"} # {}
     THEN /\ events' = events \o <<"unlinkSync build/adapter.js",
                                   "unlinkSync build/loader.js",
                                   "rmdirSync build throws">>
          /\ build' = [build EXCEPT !.entries = @ \ {"adapter.js", "loader.js"}]
          /\ pc' = "thrown"
          /\ UNCHANGED <<cbCodes, exitCode>>
     ELSE /\ events' = events \o <<"unlinkSync build/adapter.js",
                                   "unlinkSync build/loader.js",
                                   "rmdirSync build", "cb">> \o onExit(code)
          /\ build' = [dir |-> FALSE, entries |-> {}]
          /\ cbCodes' = Append(cbCodes, code)
          /\ exitCode' = Some(code)
          /\ pc' = "exited"
  /\ UNCHANGED <<metaReporter, page, fs, call, ret, args, cfgFile, mergeDistinct, config, adapter>>

Next ==
  \/ ParseArgs
  \/ GetConfig
  \/ Main
  \/ RunBrowser
  \/ \E code \in SessionCodes : SessionComplete(code)

-----------------------------------------------------------------------------
(* Test trees.  Every tree is built from a choice of which of these paths  *)
(* exist:  dir  dir.js  y.js  dir/a  dir/a.js  dir/c.txt  dir/sub          *)
(*         dir/a/b.js  dir/sub/b.js  dir/sub/c.txt                         *)

TreeChoices ==
  [dir : {"none", "file", "dir"}, dirjs : BOOLEAN, yjs : BOOLEAN,
   a : {"none", "file", "empty", "b"}, ajs : BOOLEAN, ctxt : BOOLEAN,
   sub : {"none", "empty", "b", "bc"}]

\* the names of a listing that are present, in listing order
listing(names, present) == SelectSeq(names, LAMBDA n : n \in present)

mkTree(ch) ==
  LET inDir == ch.dir = "dir"
      aDir == inDir /\ ch.a \in {"empty", "b"}
      subDir == inDir /\ ch.sub # "none"
      dirNames == (IF ch.a # "none" THEN {"a"} ELSE {})
                  \cup (IF ch.ajs THEN {"a.js"} ELSE {})
                  \cup (IF ch.ctxt THEN {"c.txt"} ELSE {})
                  \cup (IF ch.sub # "none" THEN {"sub"} ELSE {})
      aNames == IF ch.a = "b" THEN {"b.js"} ELSE {}
      subNames == (IF ch.sub \in {"b", "bc"} THEN {"b.js"} ELSE {})
                  \cup (IF ch.sub = "bc" THEN {"c.txt"} ELSE {})
      dirSet == (IF inDir THEN {"dir"} ELSE {})
                \cup (IF aDir THEN {"dir/a"} ELSE {})
                \cup (IF subDir THEN {"dir/sub"} ELSE {})
      fileSet == (IF ch.dir = "file" THEN {"dir"} ELSE {})
                 \cup (IF ch.dirjs THEN {"dir.js"} ELSE {})
                 \cup (IF ch.yjs THEN {"y.js"} ELSE {})
                 \cup (IF inDir /\ ch.a = "file" THEN {"dir/a"} ELSE {})
                 \cup (IF inDir /\ ch.ajs THEN {"dir/a.js"} ELSE {})
                 \cup (IF inDir /\ ch.ctxt THEN {"dir/c.txt"} ELSE {})
                 \cup (IF aDir THEN {pathJoin("dir/a", n) : n \in aNames} ELSE {})
                 \cup (IF subDir THEN {pathJoin("dir/sub", n) : n \in subNames}
                       ELSE {})
  IN [files |-> fileSet,
      dirs |-> [d \in dirSet |->
                  IF d = "dir" THEN listing(<<"a", "a.js", "c.txt", "sub">>, dirNames)
                  ELSE IF d = "dir/a" THEN listing(<<"b.js">>, aNames)
                  ELSE listing(<<"b.js", "c.txt">>, subNames)]]

Trees == {mkTree(ch) : ch \in TreeChoices}

\* the paths a caller may ask for
ArgPaths == {"dir", "y", "dir/a", "nope"}

MaxArgs == 2

RECURSIVE SeqsUpTo(_, _)
SeqsUpTo(S, n) ==
  IF n = 0 THEN {<< >>}
  ELSE LET shorter == SeqsUpTo(S, n - 1)
       IN shorter \cup {Append(q, x) : q \in shorter, x \in S}

-----------------------------------------------------------------------------
(* Inputs of a run.                                                        *)

\* argv when no option and no path is given
NoArgs ==
  [_ |-> << >>, exclude |-> Undefined, browsers |-> Undefined,
   logLevel |-> Undefined, reporter |-> Undefined, runTodo |-> Undefined,
   exitTimeout |-> Undefined, browserPort |-> Undefined,
   unresolvedModule |-> Undefined, saveAdapter |-> Undefined,
   config |-> Undefined]

\* dir/{a.js, sub/{b.js, c.txt}} and y.js
TreeExample ==
  mkTree([dir |-> "dir", dirjs |-> FALSE, yjs |-> TRUE, a |-> "none",
          ajs |-> TRUE, ctxt |-> FALSE, sub |-> "bc"])

\* dir/{a/{b.js}, a.js} beside dir.js
TreeShadowed ==
  mkTree([dir |-> "dir", dirjs |-> TRUE, yjs |-> FALSE, a |-> "b",
          ajs |-> TRUE, ctxt |-> FALSE, sub |-> "none"])

\* dir/{c.txt}
TreeNoTests ==
  mkTree([dir |-> "dir", dirjs |-> FALSE, yjs |-> FALSE, a |-> "none",
          ajs |-> FALSE, ctxt |-> TRUE, sub |-> "none"])

RunTrees == {TreeExample, TreeShadowed, TreeNoTests}

RunPaths == {"dir", "nope"}

RunExcludes == {Undefined, Some(<<"sub">>), Some(<<"*.js">>), Some(<<"**">>)}

RunBrowsers ==
  {Undefined, Some(<<"Chrome">>), Some(<<"Chrome", "Firefox">>),
   Some(<<"Chrome", "Netscape">>), Some(<<"ChromeHeadless", "Chrome">>)}

\* the config files of the runs: none, or one of these contents
RunCfgFiles ==
  {EmptyConf,
   [EmptyConf EXCEPT !.files = Some(<<"dir">>),
                     !.browser = [browsers |-> Some(<<"Chrome">>),
                                  port |-> Undefined]],
   [EmptyConf EXCEPT !.exclude = Some(<<"a.js">>),
                     !.browser = [browsers |-> Some(<<"Firefox", "Lynx">>),
                                  port |-> Undefined]]}

\* the build directory before a run: absent, left behind by an earlier run,
\* or a directory of the project's own
BuildDirs ==
  {[dir |-> FALSE, entries |-> {}],
   [dir |-> TRUE, entries |-> {"adapter.js", "loader.js"}],
   [dir |-> TRUE, entries |-> {"index.html"}]}

IdleCall ==
  /\ call = [fn |-> "main"]
  /\ ret = [exit |-> FALSE, files |-> << >>]

Started ==
  /\ IdleCall
  /\ pc = "argv"
  /\ config = NoConfig
  /\ adapter = << >>
  /\ server = "none"
  /\ sessionCode = Undefined
  /\ cbCodes = << >>
  /\ exitCode = Undefined
  /\ events = << >>
  /\ page = NoPage
  /\ metaReporter = NoReporter

Init ==
  /\ Started
  /\ fs \in RunTrees
  /\ mergeDistinct \in BOOLEAN
  /\ build \in BuildDirs
  /\ cfgFile \in RunCfgFiles
  /\ args \in {[NoArgs EXCEPT !._ = paths, !.exclude = ex, !.browsers = br,
                              !.logLevel = lv,
                              !.config = IF cfgFile = EmptyConf THEN Undefined
                                         ELSE Some("metatests.json")] :
                 paths \in SeqsUpTo(RunPaths, MaxArgs), ex \in RunExcludes,
                 br \in RunBrowsers, lv \in {Undefined, Some("quiet"), Some("debug")}}

Spec == Init /\ [][Next]_vars

\* no run in progress: the state of the variables of a run while a function
\* is applied on its own
IdleRun ==
  /\ args = NoArgs
  /\ cfgFile = EmptyConf
  /\ mergeDistinct = FALSE
  /\ config = NoConfig
  /\ build = [dir |-> FALSE, entries |-> {}]
  /\ adapter = << >>
  /\ server = "none"
  /\ sessionCode = Undefined
  /\ cbCodes = << >>
  /\ exitCode = Undefined
  /\ events = << >>
  /\ page = NoPage
  /\ metaReporter = NoReporter

-----------------------------------------------------------------------------
(* File resolution on its own: loadFiles applied to a list of paths.       *)

InitLoad ==
  /\ fs \in Trees
  /\ call \in {[fn |-> "loadFiles", files |-> l] : l \in SeqsUpTo(ArgPaths, MaxArgs)}
  /\ ret = Returned(<< >>)
  /\ pc = "call"
  /\ IdleRun

CallLoadFiles ==
  /\ pc = "call"
  /\ call.fn = "loadFiles"
  /\ ret' = loadFiles(call.files)
  /\ pc' = IF ret'.exit THEN "exited" ELSE "returned"
  /\ UNCHANGED <<fs, call>>
  /\ UNCHANGED runVars

NextLoad == CallLoadFiles

SpecLoad == InitLoad /\ [][NextLoad]_vars

-----------------------------------------------------------------------------
(* The expansion the specification describes: depth first, arguments in    *)
(* order, a directory replaced in place by the expansion of its children   *)
(* in listing order, keeping the files whose extension is 'js'.            *)

RECURSIVE expand(_)
RECURSIVE expandFrom(_, _)

expandPath(p) ==
  IF isDirectory(p)
  THEN expand([j \in 1..Len(readdirSync(p)) |-> pathJoin(p, readdirSync(p)[j])])
  ELSE IF fileExt(p) = "js" THEN <<p>> ELSE << >>

expandFrom(paths, i) ==
  IF i > Len(paths) THEN << >> ELSE expandPath(paths[i]) \o expandFrom(paths, i + 1)

expand(paths) == expandFrom(paths, 1)

\* the arguments and every path below a directory among them
RECURSIVE visited(_)
visited(paths) ==
  paths \cup UNION {visited({pathJoin(p, n) : n \in Range(readdirSync(p))}) :
                      p \in {q \in paths : isDirectory(q)}}

AllExist(paths) == \A p \in Range(paths) : existsSync(p)

\* no argument and no directory child p has p + '.js' beside it
NoShadow(paths) == \A p \in visited(Range(paths)) : ~existsSync(p \o ".js")

\* C9 as stated: for every tree and every list of existing path arguments
\* loadFiles returns the depth-first expansion of the arguments, holding
\* exactly the reachable files whose extension is 'js'.
C9_Original ==
  (call.fn = "loadFiles" /\ pc # "call" /\ AllExist(call.files))
    => (pc = "returned" /\ ret.files = expand(call.files))

\* C9 where no argument and no reachable directory child p has p + '.js'
\* existing beside it: loadFiles returns the depth-first expansion.
C9_Expansion ==
  (call.fn = "loadFiles" /\ pc # "call" /\ AllExist(call.files)
     /\ NoShadow(call.files))
    => (pc = "returned" /\ ret.files = expand(call.files))

\* a directory entry with a '.js' sibling: dir/{a/{b.js}, a.js} gives
\* dir/a.js twice and dir/a/b.js is never reached
C9_Shadowed ==
  /\ pc = "returned"
  /\ call.files = <<"dir">>
  /\ fs.files = {"dir/a.js", "dir/a/b.js"}
  /\ ret.files = <<"dir/a.js", "dir/a.js">>
  /\ expand(call.files) = <<"dir/a/b.js", "dir/a.js">>

\* the specification's example: dir/{a.js, sub/{b.js, c.txt}}
C9_Witness ==
  /\ pc = "returned"
  /\ call.files = <<"dir">>
  /\ fs.files = {"dir/a.js", "dir/sub/b.js", "dir/sub/c.txt"}
  /\ fs.dirs = [d \in {"dir", "dir/sub"} |->
                  IF d = "dir" THEN <<"a.js", "sub">> ELSE <<"b.js", "c.txt">>]
  /\ NoShadow(call.files)
  /\ ret.files = <<"dir/a.js", "dir/sub/b.js">>

-----------------------------------------------------------------------------
(* Exclusion on its own: exclude applied to a list of files and patterns.  *)

RECURSIVE Strs(_, _)
\* the strings of at most n characters over chars
Strs(chars, n) ==
  IF n = 0 THEN {""}
  ELSE LET shorter == Strs(chars, n - 1)
       IN shorter \cup {q \o c : q \in shorter, c \in chars}

PatternChars == {"a", ".", "*", "?"}

MaxPatternLen == 3

Patterns == Strs(PatternChars, MaxPatternLen) \cup {"*.spec", "a.b.js"}

FileLists ==
  {<<"x.spec", "y.js">>, <<"a.bxjs", "a.b.js">>, <<"spec", "a.spec.js">>}
    \cup SeqsUpTo({"a", "aa", ".a", "a.a", "ba.", "aaa"}, 2)

InitExclude ==
  /\ fs = [files |-> {}, dirs |-> << >>]
  /\ call \in {[fn |-> "exclude", files |-> l, filterArr |-> f] :
                 l \in FileLists,
                 f \in {<<p>> : p \in Patterns} \cup {<<"a.", p>> : p \in Patterns}
                       \cup {<< >>}}
  /\ ret = [threw |-> FALSE, files |-> << >>]
  /\ pc = "call"
  /\ IdleRun

CallExclude ==
  /\ pc = "call"
  /\ call.fn = "exclude"
  /\ ret' = exclude(call.files, call.filterArr)
  /\ pc' = IF ret'.threw THEN "thrown" ELSE "returned"
  /\ UNCHANGED <<fs, call>>
  /\ UNCHANGED runVars

NextExclude == CallExclude

SpecExclude == InitExclude /\ [][NextExclude]_vars

\* the pattern language the specification describes: '.' is a literal dot,
\* '*' is one or more characters, '?' is exactly one character
globItems(pattern) ==
  [k \in 1..Len(pattern) |->
     LET c == SubSeq(pattern, k, k)
     IN IF c = "*" THEN [any |-> TRUE, ch |-> "", q |-> "+"]
        ELSE IF c = "?" THEN Atom(TRUE, "")
        ELSE Atom(FALSE, c)]

globMatches(pattern, file) == regexTest(globItems(pattern), file)

\* C10 as stated: exclude returns the files in their original order minus
\* exactly those matched by at least one pattern, every '.' of a pattern
\* matching only a literal dot, every '*' one or more characters and every
\* '?' exactly one character.
C10_Original ==
  (call.fn = "exclude" /\ pc # "call")
    => /\ pc = "returned"
       /\ ret.files = SelectSeq(call.files, LAMBDA file :
                        ~\E k \in 1..Len(call.filterArr) :
                            globMatches(call.filterArr[k], file))

\* the specification's example
C10_Example ==
  /\ pc = "returned"
  /\ call.files = <<"x.spec", "y.js">>
  /\ call.filterArr = <<"*.spec">>
  /\ ret.files = <<"y.js">>

-----------------------------------------------------------------------------
(* Claims about a run.                                                     *)

\* the paths and browsers a run asks for, config file first
requestedFiles == orEmpty(parsedConfig.files) \o args._

requestedBrowsers == orEmpty(parsedConfig.browser.browsers) \o orEmpty(args.browsers)

requestedExcludes == orEmpty(parsedConfig.exclude) \o orEmpty(args.exclude)

\* what only runBrowser does
RunBrowserEvents ==
  {"console.error No browser environments specified", "cb", "mkdirSync build",
   "writeFileSync build/adapter.js", "writeFileSync build/loader.js",
   "console.log Adapter file", "new karma.Server", "server.start"}

\* neither an artifact was written nor a session constructed or started
NothingBuilt ==
  /\ Range(events) \cap RunBrowserEvents = {}
  /\ adapter = << >>
  /\ server = "none"
  /\ sessionCode = Undefined
  /\ cbCodes = << >>

\* e comes before f in the events, and both occur
Before(e, f) ==
  \E i, j \in 1..Len(events) : i < j /\ events[i] = e /\ events[j] = f

\* C1 as stated: for every code c the session hands to its completion
\* callback, adapter.js, loader.js and the build directory are removed first
\* and only then the process exits, with exit code exactly c, so that the
\* build directory is absent when the process has returned.
C1_Original ==
  sessionCode # Undefined
    => /\ pc = "exited"
       /\ exitCode = sessionCode
       /\ build = [dir |-> FALSE, entries |-> {}]
       /\ Before("unlinkSync build/adapter.js", "process.exit")
       /\ Before("unlinkSync build/loader.js", "process.exit")
       /\ Before("rmdirSync build", "process.exit")

C3_NoFilesExits ==
  (/\ pc \notin {"argv", "start", "configured"}
   /\ config # NoConfig
   /\ Len(config.files) = 0)
    => /\ pc = "exited"
       /\ exitCode = Some(1)
       /\ NothingBuilt
       /\ Before("console.error No test files were specified", "process.exit")

\* no positional argument and no config file
C3_Witness ==
  /\ pc = "exited"
  /\ args._ = << >>
  /\ args.config = Undefined
  /\ config # NoConfig
  /\ Len(config.files) = 0
  /\ exitCode = Some(1)

\* C4: when some requested path p has neither p + '.js' nor p, loadFiles
\* ends the process with status 1 and returns no list: no exclusion, no
\* browser configuration, no artifact and no session follow.  And where
\* p + '.js' is a file it is what loadFiles takes, also when p exists.
C4_MissingFileExits ==
  /\ (/\ pc \notin {"argv", "start"}
      /\ validChoices
      /\ \E p \in Range(requestedFiles) : missing(p))
       => /\ pc = "exited"
          /\ exitCode = Some(1)
          /\ config = NoConfig
          /\ events = <<"console.error File does not exist", "process.exit">>
          /\ NothingBuilt
  /\ (/\ pc \notin {"argv", "start"}
      /\ config # NoConfig
      /\ requestedExcludes = << >>
      /\ \A p \in Range(requestedFiles) : (p \o ".js") \in fs.files)
       => Range(config.files) = {p \o ".js" : p \in Range(requestedFiles)}

\* a missing path after an existing one
C4_Witness ==
  /\ pc = "exited"
  /\ args._ = <<"dir", "nope">>
  /\ existsSync("dir")
  /\ missing("nope")
  /\ events = <<"console.error File does not exist", "process.exit">>

\* dir.js is taken although the directory dir exists
C4_WitnessPreferred ==
  /\ pc = "session"
  /\ requestedFiles = <<"dir">>
  /\ isDirectory("dir")
  /\ config.files = <<"dir.js">>


-----------------------------------------------------------------------------
(* Configuration resolution over the scalar options: runs that differ in   *)
(* what the command line and the config file say about each of them.       *)

InitConfig ==
  /\ Started
  /\ fs = TreeExample
  /\ mergeDistinct = FALSE
  /\ build = [dir |-> FALSE, entries |-> {}]
  /\ cfgFile \in {[EmptyConf EXCEPT !.logLevel = lv, !.reporter = rp,
                                    !.runTodo = td, !.exitTimeout = et,
                                    !.unresolvedModule = um,
                                    !.browser = [browsers |-> Undefined,
                                                 port |-> pt]] :
                    lv \in {Undefined, Some("info")},
                    rp \in {Undefined, Some("concise")},
                    td \in {Undefined, Some(TRUE)},
                    et \in {Undefined, Some(7)},
                    um \in {Undefined, Some("fail")},
                    pt \in {Undefined, Some(9876)}}
  /\ args \in {[NoArgs EXCEPT !._ = <<"dir">>, !.browsers = Some(<<"Chrome">>),
                              !.config = Some("metatests.json"),
                              !.logLevel = lv, !.reporter = rp, !.runTodo = td,
                              !.exitTimeout = et, !.unresolvedModule = um,
                              !.browserPort = pt] :
                 lv \in {Undefined, Some("quiet")},
                 rp \in {Undefined, Some(""), Some("tap")},
                 td \in {Undefined, Some(FALSE), Some(TRUE)},
                 et \in {Undefined, Some(0), Some(3)},
                 um \in {Undefined, Some("ignore")},
                 pt \in {Undefined, Some(0), Some(8080)}}

SpecConfig == InitConfig /\ [][Next]_vars

\* the flag's value when the flag was supplied, else the file's when the key
\* is present, else the default
firstGiven(flag, key, default) ==
  IF flag # Undefined THEN flag ELSE IF key # Undefined THEN key ELSE default

\* C5 as stated: each scalar option of the resulting configuration equals the
\* command line's value when the flag was supplied, else the config file's
\* value when the key is present, else the built-in default (logLevel
\* 'default', reporter 'default', exitTimeout 5, unresolvedModule 'ignore').
C5_Original ==
  (pc \notin {"argv", "start"} /\ config # NoConfig)
    => /\ Some(config.logLevel) =
            firstGiven(args.logLevel, parsedConfig.logLevel, Some("default"))
       /\ Some(config.reporter) =
            firstGiven(args.reporter, parsedConfig.reporter, Some("default"))
       /\ config.runTodo = firstGiven(args.runTodo, parsedConfig.runTodo, Undefined)
       /\ Some(config.exitTimeout) =
            firstGiven(args.exitTimeout, parsedConfig.exitTimeout,
                       Some(DEFAULT_EXIT_TIMEOUT))
       /\ Some(config.unresolvedModule) =
            firstGiven(args.unresolvedModule, parsedConfig.unresolvedModule,
                       Some("ignore"))
       /\ config.browser.port =
            firstGiven(args.browserPort, parsedConfig.browser.port, Undefined)

-----------------------------------------------------------------------------
(* Adapter synthesis and the adapter at work: getBuildFiles applied to the *)
(* configurations getConfig can return, and a page executing the result.   *)

AdapterConfigs ==
  {[NoConfig EXCEPT !.logLevel = lv, !.reporter = rp, !.runTodo = td,
                    !.exitTimeout = et, !.files = fl,
                    !.unresolvedModule = "ignore"] :
     lv \in {"quiet", "default", "info"},
     rp \in {"default", "concise", "tap", "tap-mocha", "tapioca"},
     td \in {Undefined, Some(FALSE), Some(TRUE)},
     et \in {1, 3, DEFAULT_EXIT_TIMEOUT},
     fl \in {<<"a.js">>, <<"a.js", "b.js">>}}

InitAdapter ==
  /\ IdleCall
  /\ pc = "build"
  /\ fs = [files |-> {"a.js", "b.js"}, dirs |-> << >>]
  /\ args = NoArgs
  /\ cfgFile = EmptyConf
  /\ mergeDistinct = FALSE
  /\ config \in AdapterConfigs
  /\ build = [dir |-> FALSE, entries |-> {}]
  /\ adapter = << >>
  /\ server = "none"
  /\ sessionCode = Undefined
  /\ cbCodes = << >>
  /\ exitCode = Undefined
  /\ events = << >>
  /\ page = NoPage
  /\ metaReporter = NoReporter

SpecAdapter == InitAdapter /\ [][NextAdapter]_vars


\* the place of a statement in the order the specification gives: start
\* hook, polyfill, process and stdout neutralization, registration of the
\* 'finish' listener, reporter, todo mode, load of a test file
stmtClass(stmt) ==
  IF stmt.kind = "__karma__.start=" THEN 1
  ELSE IF stmt.kind = "require" /\ stmt.arg = "babel-polyfill" THEN 2
  ELSE IF stmt.kind \in {"process.versions.node=", "process.stdout=",
                         "process.stdout.write="} THEN 3
  ELSE IF stmt.kind = "require" /\ stmt.arg = "metatests" THEN 4
  ELSE IF stmt.kind = "on finish" THEN 4
  ELSE IF stmt.kind \in {"removeReporter", "setReporter TapReporter",
                         "setReporter ConciseReporter"} THEN 5
  ELSE IF stmt.kind = "runTodo" THEN 6
  ELSE 7

ofClass(class) == SelectSeq(adapter, LAMBDA stmt : stmtClass(stmt) = class)

C8_CompletionAfterTimeout ==
  pc = "page"
    => /\ page.calls # << >> => page.finishedAt # Undefined
       /\ \A i \in 1..Len(page.calls) :
            /\ page.calls[i].at >= page.finishedAt[1] + config.exitTimeout * 1000
            /\ page.calls[i].fn = <<"info", "result", "complete">>[((i - 1) % 3) + 1]
            /\ page.calls[i].fn = "result"
                 => page.calls[i].success = ~page.hasFailures

\* the session is signalled complete five seconds after 'finish'
C8_Witness ==
  /\ pc = "page"
  /\ config.exitTimeout = 5
  /\ page.finishedAt = Some(1000)
  /\ Len(page.calls) = 3
  /\ page.calls[3] = [fn |-> "complete", at |-> 6000, success |-> TRUE]
  /\ page.calls[2].success = FALSE



-----------------------------------------------------------------------------
(* File resolution applied to its own result: loadFiles(loadFiles(l)).     *)
(* The trees add a file or a directory named y.js.js beside y.js.          *)

ReloadTrees ==
  Trees \cup
  {[files |-> {"y.js"} \cup more, dirs |-> << >>] :
     more \in {{"y.js.js"}, {"y.js.js", "dir.js"}}} \cup
  {[files |-> {"y.js", "y.js.js/z.js"} \cup more,
    dirs |-> [d \in {"y.js.js"} |-> <<"z.js">>]] : more \in {{}, {"dir.js"}}}

InitReload ==
  /\ fs \in ReloadTrees
  /\ call \in {[fn |-> "loadFiles", files |-> l] : l \in SeqsUpTo(ArgPaths, MaxArgs)}
  /\ ret = Returned(<< >>)
  /\ pc = "call"
  /\ IdleRun

\* loadFiles called again with the list it returned
Reload ==
  /\ pc = "returned"
  /\ call.fn = "loadFiles"
  /\ call' = [fn |-> "loadFiles", files |-> ret.files]
  /\ ret' = loadFiles(ret.files)
  /\ pc' = IF ret'.exit THEN "reexited" ELSE "reloaded"
  /\ UNCHANGED fs
  /\ UNCHANGED runVars

NextReload == CallLoadFiles \/ Reload

SpecReload == InitReload /\ [][NextReload]_vars

\* C11 as stated: for every file system state and every list returned by
\* loadFiles, loadFiles applied to that list returns it unchanged.
C11_Original ==
  (call.fn = "loadFiles" /\ pc \in {"reloaded", "reexited"})
    => (pc = "reloaded" /\ ret.files = call.files)

\* C11 for the lists none of whose elements p has p + '.js' existing
\* beside it: loadFiles applied to such a list it returned gives the list
\* back unchanged.
C11_Idempotent ==
  (call.fn = "loadFiles" /\ pc \in {"reloaded", "reexited"}
     /\ \A p \in Range(call.files) : ~existsSync(p \o ".js"))
    => (pc = "reloaded" /\ ret.files = call.files)

\* the second resolution of the specification's example has returned
C11_Witness ==
  /\ pc = "reloaded"
  /\ fs.files = {"dir/a.js", "dir/sub/b.js", "dir/sub/c.txt"}
  /\ call.files = <<"dir/a.js", "dir/sub/b.js">>
  /\ ret.files = <<"dir/a.js", "dir/sub/b.js">>

\* y.js beside y.js.js: the second resolution returns y.js.js
C11_Shadowed ==
  /\ pc = "reloaded"
  /\ fs.files = {"y.js", "y.js.js"}
  /\ call.files = <<"y.js">>
  /\ ret.files = <<"y.js.js">>


-----------------------------------------------------------------------------
(* Runs that differ in the log level and the reporter they ask for, on     *)
(* the command line and in the config file.                                *)

LevelsAsked == {Undefined, Some("info"), Some("verbose")}

LevelsInFile ==
  {Undefined, Some("quiet"), Some("debug"), Some("trace"), Some("constructor")}

ReportersAsked ==
  {Undefined, Some("default"), Some("concise"), Some("tap"), Some("tap-classic"),
   Some("dot"), Some("tapioca")}

InitLevels ==
  /\ Started
  /\ fs = TreeExample
  /\ mergeDistinct = FALSE
  /\ build = [dir |-> FALSE, entries |-> {}]
  /\ cfgFile \in {[EmptyConf EXCEPT !.logLevel = lv] : lv \in LevelsInFile}
  /\ args \in {[NoArgs EXCEPT !._ = <<"dir">>, !.browsers = Some(<<"Chrome">>),
                              !.config = Some("metatests.json"),
                              !.logLevel = lv, !.reporter = rp] :
                 lv \in LevelsAsked, rp \in ReportersAsked}

SpecLevels == InitLevels /\ [][Next]_vars

\* the reporter names the adapter has a statement for, and 'default'
recognizedReporter(r) ==
  r \in {"default", "concise", "tap"} \/ (startsWith(r, "tap-") /\ Len(r) > 4)

\* what a run at log level 'default' prints on the host up to its exit
defaultLevelLog ==
  <<"mkdirSync build", "writeFileSync build/adapter.js",
    "writeFileSync build/loader.js", "new karma.Server", "server.start",
    "unlinkSync build/adapter.js", "unlinkSync build/loader.js",
    "rmdirSync build", "cb", "console.log Metatests finished with code",
    "process.exit">>

\* C12 as stated: a log level outside the six known names behaves as
\* 'default' (host log thresholds, karma log level, bundler stats), a
\* reporter that is none of 'default', 'concise', tap or tap-variant puts no
\* reporter statement in the adapter, and no such value ends the run with an
\* error.
C12_Original ==
  /\ (pc # "argv" /\ args.logLevel # Undefined
        /\ args.logLevel[1] \notin DOMAIN logLevels)
       => "console.error Invalid values" \notin Range(events)
  /\ (config # NoConfig /\ config.logLevel \notin DOMAIN logLevels)
       => /\ config.browser.logLevel = "LOG_ERROR"
          /\ config.browser.stats = "errors-only"
          /\ (pc = "exited" /\ sessionCode # Undefined)
               => events = defaultLevelLog
  /\ (config # NoConfig /\ adapter # << >> /\ config.logLevel # "quiet"
        /\ ~recognizedReporter(config.reporter))
       => \A i \in DOMAIN adapter : ~startsWith(adapter[i].kind, "setReporter")

\* an unknown level on the command line: yargs refuses it
C12_Refused ==
  /\ pc = "exited"
  /\ args.logLevel = Some("verbose")
  /\ exitCode = Some(1)
  /\ events = <<"console.error Invalid values", "process.exit">>

\* an inherited name as the level in the config file: the last line is not
\* printed, and karma gets no log level
C12_Inherited ==
  /\ pc = "exited"
  /\ sessionCode # Undefined
  /\ config.logLevel = "constructor"
  /\ config.browser.logLevel = "undefined"
  /\ "console.log Metatests finished with code" \notin Range(events)

\* a level in the config file that is no name at all behaves as 'default'
C12_Fallback ==
  /\ pc = "exited"
  /\ sessionCode # Undefined
  /\ config.logLevel = "trace"
  /\ config.browser.logLevel = "LOG_ERROR"
  /\ events = defaultLevelLog

\* a reporter that only begins with tap gets the TAP reporter
C12_Tapioca ==
  /\ config # NoConfig
  /\ config.reporter = "tapioca"
  /\ \E i \in DOMAIN adapter : adapter[i].kind = "setReporter TapReporter"


-----------------------------------------------------------------------------
(* The reporter on its own: karma delivers up to MaxEvents logs and        *)
(* errors to a reporter built by either getReporter.                       *)

InitReporter ==
  /\ IdleCall
  /\ pc = "reporting"
  /\ fs = TreeExample
  /\ args = NoArgs
  /\ cfgFile = EmptyConf
  /\ mergeDistinct = FALSE
  /\ config = NoConfig
  /\ build = [dir |-> FALSE, entries |-> {}]
  /\ adapter = << >>
  /\ server = "started"
  /\ sessionCode = Undefined
  /\ cbCodes = << >>
  /\ exitCode = Undefined
  /\ events = << >>
  /\ page = NoPage
  /\ metaReporter \in {[NoReporter EXCEPT !.byLogLevel = by, !.logLevel = lv] :
                     by \in BOOLEAN, lv \in {"default", "quiet", "debug"}}

SpecReporter == InitReporter /\ [][NextReporter]_vars

\* the host output the claim describes for the deliveries ds[1..n]: each
\* payload once, in arrival order, logs on standard output and errors on
\* standard error, preceded by the browser's header when the delivery is the
\* first of that browser
RECURSIVE expectedOut(_, _)
expectedOut(ds, n) ==
  IF n = 0 THEN << >>
  ELSE LET d == ds[n]
           first == \A k \in 1..(n - 1) : ds[k].browser.id # d.browser.id
       IN expectedOut(ds, n - 1)
            \o (IF first THEN <<Line("stdout", "\n" \o d.browser.name \o ":")>>
                ELSE << >>)
            \o <<Line(IF d.kind = "log" THEN "stdout" ELSE "stderr",
                      payloadText(d.payload))>>

\* C13 as stated: for every sequence of log and error events delivered to
\* the reporter, at any log level, the host output holds every payload once
\* in arrival order, logs on standard output and errors on standard error,
\* and each browser's header once, immediately before its first payload.
C13_Original ==
  pc = "reporting"
    => metaReporter.out = expectedOut(metaReporter.delivered, Len(metaReporter.delivered))

\* C13 as amended: the same at every log level for a reporter built without
\* a log level, and for one built with it at every level but 'quiet'; the
\* reporter built for 'quiet' prints nothing of what is delivered to it.
C13_NothingDropped ==
  pc = "reporting"
    => metaReporter.out =
         IF metaReporter.byLogLevel /\ metaReporter.logLevel = "quiet" THEN << >>
         ELSE expectedOut(metaReporter.delivered, Len(metaReporter.delivered))

\* an error first, then a log of the same browser, then another browser
C13_Witness ==
  /\ pc = "reporting"
  /\ metaReporter.logLevel = "quiet"
  /\ ~metaReporter.byLogLevel
  /\ Len(metaReporter.delivered) = 3
  /\ metaReporter.delivered[1].kind = "error"
  /\ metaReporter.delivered[2].kind = "log"
  /\ metaReporter.delivered[2].browser = metaReporter.delivered[1].browser
  /\ metaReporter.delivered[3].browser # metaReporter.delivered[1].browser
  /\ Len(metaReporter.out) = 5
  /\ metaReporter.out[2].stream = "stderr"

\* the reporter built for log level 'quiet' prints nothing of what it gets
C13_Quiet ==
  /\ pc = "reporting"
  /\ metaReporter.byLogLevel
  /\ metaReporter.logLevel = "quiet"
  /\ Len(metaReporter.delivered) = 2
  /\ metaReporter.out = << >>


-----------------------------------------------------------------------------
(* The stdout replacement of the adapter: the page executes the adapter    *)
(* and its code writes to process.stdout.                                  *)

InitStdout ==
  /\ InitAdapter
  /\ config.reporter = "default"
  /\ config.exitTimeout = DEFAULT_EXIT_TIMEOUT
  /\ config.runTodo = Undefined

NextStdout ==
  \/ BuildAdapter
  \/ Exec
  \/ \E str \in Chunks : StdoutWrite(str)

SpecStdout == InitStdout /\ [][NextStdout]_vars

\* the newline-terminated segments of text[i..], cur being the segment begun
RECURSIVE segments(_, _, _)
segments(text, i, cur) ==
  IF i > Len(text) THEN << >>
  ELSE IF SubSeq(text, i, i) = "\n"
  THEN <<cur>> \o segments(text, i + 1, "")
  ELSE segments(text, i + 1, cur \o SubSeq(text, i, i))

\* what follows the last newline of text[i..]
RECURSIVE unterminated(_, _, _)
unterminated(text, i, cur) ==
  IF i > Len(text) THEN cur
  ELSE IF SubSeq(text, i, i) = "\n" THEN unterminated(text, i + 1, "")
  ELSE unterminated(text, i + 1, cur \o SubSeq(text, i, i))

\* C14: after any sequence of writes to the adapter's process.stdout.write
\* the lines given to console.log are exactly the newline-terminated
\* segments of the concatenation of the strings written, in order and once
\* each, and the text after the last newline is still in the buffer.
C14_LineBuffering ==
  (pc = "page" /\ page.shim)
    => /\ page.console = segments(page.written, 1, "")
       /\ page.stdout = unterminated(page.written, 1, "")

\* a line split across two writes, an empty line, and a buffered rest
C14_Witness ==
  /\ pc = "page"
  /\ page.shim
  /\ page.written = "a\n\nb"
  /\ page.console = <<"a", "">>
  /\ page.stdout = "b"


-----------------------------------------------------------------------------
(* The end of a run: the cleanup of the completion callback and the exit   *)
(* callback, under Spec.                                                   *)

\* a removal of the completion callback has thrown
cleanupFailed ==
  \E i \in DOMAIN events :
    events[i] \in {"unlinkSync build/adapter.js throws",
                   "unlinkSync build/loader.js throws", "rmdirSync build throws"}

\* runBrowser was entered
runBrowserEntered == pc \in {"session", "thrown"} \/ "cb" \in Range(events)

\* C15 as stated: when a removal fails in the completion callback fired with
\* code c, the failure is swallowed: the exit callback is still invoked and
\* the process exits with code c.
C15_Original ==
  (sessionCode # Undefined /\ cleanupFailed)
    => /\ pc = "exited"
       /\ cbCodes = <<sessionCode[1]>>
       /\ exitCode = sessionCode

\* the build directory held a file of its own: rmdirSync throws after both
\* files are removed, and the exit callback is not reached
C15_NotEmpty ==
  /\ pc = "thrown"
  /\ sessionCode = Some(0)
  /\ build = [dir |-> TRUE, entries |-> {"index.html"}]
  /\ cbCodes = << >>
  /\ exitCode = Undefined
  /\ events[Len(events)] = "rmdirSync build throws"

\* C16 as stated: the exit callback given to runBrowser is invoked exactly
\* once per run: with 1, before any artifact is written and without a
\* session, when the final browser list is empty; otherwise only from the
\* session's completion callback, with the session's code.
C16_Original ==
  /\ Len(cbCodes) <= 1
  /\ (runBrowserEntered /\ pc \in {"exited", "thrown"}) => Len(cbCodes) = 1
  /\ (runBrowserEntered /\ Len(config.browser.browsers) = 0)
       => /\ pc = "exited"
          /\ cbCodes = <<1>>
          /\ sessionCode = Undefined
          /\ server = "none"
          /\ \A i \in DOMAIN events :
               events[i] \notin {"mkdirSync build", "writeFileSync build/adapter.js",
                                 "writeFileSync build/loader.js", "new karma.Server"}
  /\ (runBrowserEntered /\ Len(config.browser.browsers) > 0 /\ cbCodes # << >>)
       => /\ sessionCode # Undefined
          /\ cbCodes = <<sessionCode[1]>>

\* C16 where the cleanup does not throw: the exit callback is invoked once,
\* as the claim says.
C16_OncePerRun ==
  ~cleanupFailed => C16_Original

\* no browser asked for: the callback gets 1 and nothing is built
C16_NoBrowsers ==
  /\ pc = "exited"
  /\ config # NoConfig
  /\ Len(config.files) > 0
  /\ Len(config.browser.browsers) = 0
  /\ cbCodes = <<1>>
  /\ exitCode = Some(1)
  /\ adapter = << >>
  /\ server = "none"

\* a session that completed with code 2 and was cleaned up
C16_Session ==
  /\ pc = "exited"
  /\ sessionCode = Some(2)
  /\ cbCodes = <<2>>
  /\ ~cleanupFailed

====
